---------------------------- MODULE Spec2Model ----------------------------
(***************************************************************************)
(* A model of nemo/collections/asr/models/clustering_sd_models.py: the     *)
(* segment merger combine_stamps, the label and reference helpers, the     *)
(* scorer get_score, and the methods _eval_vad, _extract_embeddings and    *)
(* diarize of ClusteringSDModel.                                           *)
(*                                                                         *)
(* Text is modelled as text: a Python str is a sequence of symbols, a      *)
(* decimal digit being one symbol, and a speaker tag, a path component or  *)
(* a separator being one symbol each.  Formatting, splitting, comparing    *)
(* and float() are operators on such sequences.                            *)
(*                                                                         *)
(* The neural models, the data loaders, the clustering and the pyannote    *)
(* metric are outside the file: what they return is an input, drawn where  *)
(* the code reads it.                                                      *)
(***************************************************************************)
EXTENDS Integers, Sequences, FiniteSets, TLC

VARIABLES
    pc,          \* the statement the running call is at
    entry,       \* the function the run was entered by
    err,         \* "none", or the exception that ended the run
    stamps,      \* combine_stamps: its argument
    combined,    \* combine_stamps(stamps)
    recombined,  \* combine_stamps(combine_stamps(stamps))
    time_length, \* cfg.vad.time_length
    shift_length,\* cfg.vad.shift_length
    manifest,    \* the manifest file: one entry per line
    pred_len,    \* the number of probabilities the VAD model gives per batch
    paths2audio_files, \* diarize: its argument, None or a list of paths
    manifest_filepath, \* cfg.manifest_filepath: None, or the lines of that file
    data,        \* _eval_vad: the recording identity of every manifest line
    i,           \* the index of the batch in hand (-1: before the first)
    status,      \* _eval_vad: the status of the batch in hand
    to_save,     \* _eval_vad: the probabilities kept of the batch in hand
    all_len,     \* _eval_vad: the count of probabilities kept in the run
    frames,      \* the .frame files of out_dir: name -> lines
    manifest_file,   \* _extract_embeddings: its argument
    uniq_names,      \* _extract_embeddings: the key of every manifest line
    out_embeddings,  \* _extract_embeddings: key -> embedding
    dirs,            \* the directories that exist
    embeddings_file, \* self._embeddings_file
    pkl,             \* the pickled embedding stores: file name -> dictionary
    pyannote,        \* whether DiarizationErrorRate, Annotation, Segment are bound
    window,          \* get_score: window
    shift,           \* get_score: shift
    num_speakers,    \* get_score: num_speakers
    rttm_dir,        \* whether truth_rttm_dir exists
    rttm_files,      \* the identifiers with an .rttm file in truth_rttm_dir
    write_labels,    \* get_score: write_labels
    embeddings,      \* get_score: the loaded embedding store
    key_no,          \* get_score: how many keys the loop has taken
    uniq_key,        \* get_score: the key in hand
    identifier,      \* get_score: the identifier of the key in hand
    cluster_labels,  \* get_score: cluster_method.labels_
    lines,           \* get_score: the raw label lines
    labels,          \* get_score: the merged label lines
    hypothesis,      \* get_score: the hypothesis annotation, None while unbound
    DER,             \* get_score: DER
    metric,          \* the calls the metric has had: reference and hypothesis
    txt,             \* the label files: file name -> lines
    result           \* what the entered function returned

ctlVars   == <<pc, entry, err>>
mergeVars == <<stamps, combined, recombined>>
cfgVars   == <<time_length, shift_length, manifest, pred_len, paths2audio_files,
               manifest_filepath>>
vadVars   == <<data, status, to_save, all_len, frames>>
embVars   == <<manifest_file, uniq_names, out_embeddings, dirs, embeddings_file, pkl>>
scoreArgs == <<pyannote, window, shift, num_speakers, rttm_dir, rttm_files, write_labels>>
scoreVars == <<embeddings, key_no, uniq_key, identifier, cluster_labels, lines, labels,
               hypothesis, DER, metric, txt>>
vars      == <<ctlVars, i, result, mergeVars, cfgVars, vadVars, embVars, scoreArgs, scoreVars>>

\* what the steps of one function leave alone
notMerge  == <<i, result, cfgVars, vadVars, embVars, scoreArgs, scoreVars>>
notVad    == <<result, mergeVars, cfgVars, embVars, scoreArgs, scoreVars>>
notEmb    == <<result, mergeVars, cfgVars, vadVars, scoreArgs, scoreVars>>
notScore  == <<i, mergeVars, cfgVars, vadVars, embVars, scoreArgs>>

-----------------------------------------------------------------------------
(* Bounds of the model.                                                    *)

TimeStep   == 5   \* label times are multiples of TimeStep: 0, 5, 10, 15, ...
MaxSlot    == 3   \* a label line starts at one of the first MaxSlot multiples
MaxDur     == 2   \* and lasts 1 .. MaxDur steps
MaxLines   == 3   \* length of an input of combine_stamps
MaxEntries == 3   \* lines of a manifest
MaxTimeLength == 4  \* cfg.vad.time_length is 1 .. MaxTimeLength
MaxShiftLength == 2 \* cfg.vad.shift_length is 1 .. MaxShiftLength
MaxPredLen == 4   \* probabilities per batch: 1 .. MaxPredLen
MaxSpeakers == 2  \* num_speakers
MaxKeys    == 2   \* keys of an embedding store
MaxLabels  == 2   \* cluster labels of one key: 1 .. MaxLabels
MaxDER     == 2   \* the metric gives 1 .. MaxDER

-----------------------------------------------------------------------------
(* Python values.                                                          *)

\* None (or a name not yet bound), and a value that is there
None    == [none |-> TRUE, val |-> <<>>]
Some(v) == [none |-> FALSE, val |-> v]

-----------------------------------------------------------------------------
(* Python text.                                                            *)

Digits == <<"0", "1", "2", "3", "4", "5", "6", "7", "8", "9">>

\* ord() of a digit, less ord("0"): Python compares str by code point
Ord(c) == CHOOSE d \in 0..9 : Digits[d + 1] = c

\* "{}".format(n) of a non-negative int
RECURSIVE Str(_)
Str(n) == IF n < 10 THEN <<Digits[n + 1]>>
          ELSE Str(n \div 10) \o <<Digits[(n % 10) + 1]>>

\* float(s) of a string of digits
RECURSIVE Float(_)
Float(s) == IF s = <<>> THEN 0
            ELSE 10 * Float(SubSeq(s, 1, Len(s) - 1)) + Ord(s[Len(s)])

\* a <= b on str: the first differing symbol decides, a prefix is smaller
RECURSIVE StrLe(_, _)
StrLe(a, b) ==
    IF a = <<>> THEN TRUE
    ELSE IF b = <<>> THEN FALSE
    ELSE IF Head(a) # Head(b) THEN Ord(Head(a)) < Ord(Head(b))
    ELSE StrLe(Tail(a), Tail(b))

\* "{} {} {}".format(a, b, c)
Format3(a, b, c) == a \o <<" ">> \o b \o <<" ">> \o c

\* "{}\t{}\t{}\n".format(a, b, c)
FormatTab(a, b, c) == a \o <<"\t">> \o b \o <<"\t">> \o c \o <<"\n">>

IsSpace(c) == c \in {" ", "\t", "\n"}

\* s.split(): the maximal runs of non-whitespace symbols, in order
RECURSIVE SplitFrom(_, _, _)
SplitFrom(s, cur, acc) ==
    IF s = <<>> THEN (IF cur = <<>> THEN acc ELSE Append(acc, cur))
    ELSE IF IsSpace(Head(s))
         THEN SplitFrom(Tail(s), <<>>, IF cur = <<>> THEN acc ELSE Append(acc, cur))
         ELSE SplitFrom(Tail(s), Append(cur, Head(s)), acc)

Split(s) == SplitFrom(s, <<>>, <<>>)

-----------------------------------------------------------------------------
(* combine_stamps                                                          *)

\* the while loop of combine_stamps; idx is Python's 0-based index
RECURSIVE combine_loop(_, _, _, _, _, _, _, _)
combine_loop(st, idx, end, speaker, prev_start, prev_end, prev_speaker, combine) ==
    IF idx < Len(st) - 1
    THEN LET f == Split(st[idx + 2])        \* idx += 1; stamps[idx].split()
             start == f[1]
             e     == f[2]
             spk   == f[3]
         IN  IF spk = prev_speaker /\ StrLe(start, prev_end)
             THEN combine_loop(st, idx + 1, e, spk, prev_start, e, prev_speaker, combine)
             ELSE combine_loop(st, idx + 1, e, spk, start, e, spk,
                               Append(combine, Format3(prev_start, prev_end, prev_speaker)))
    ELSE Append(combine, Format3(prev_start, end, speaker))

\* combine_stamps(stamps) of a non-empty list
combine_stamps(st) ==
    LET first == Split(st[1])
    IN  combine_loop(st, 0, Str(0), <<"unknown">>, first[1], first[2], first[3], <<>>)

-----------------------------------------------------------------------------
(* combine_stamps called on a chronologically ordered, non-empty list.     *)

\* line 120: 'speaker_' + str(label)
Tag(label) == <<"speaker_">> \o Str(label)

Speakers == { Tag(label) : label \in 0..(MaxSpeakers - 1) }

\* a label line: start, end > start, speaker tag
LabelLines ==
    { [start |-> s * TimeStep, end |-> (s + d) * TimeStep, speaker |-> k] :
        s \in 0..(MaxSlot - 1), d \in 1..MaxDur, k \in Speakers }

LineText(l) == Format3(Str(l.start), Str(l.end), l.speaker)

\* the lists of 1 .. MaxLines label lines with non-decreasing start
OrderedInputs ==
    UNION { { q \in [1..n -> LabelLines] :
                \A j \in 1..(n - 1) : q[j].start <= q[j + 1].start } : n \in 1..MaxLines }

MergeIdle == stamps = <<>> /\ combined = <<>> /\ recombined = <<>>

\* the state of the parts a run does not enter
CfgIdle ==
    /\ time_length = 1 /\ shift_length = 1 /\ manifest = <<>> /\ pred_len = 1
    /\ paths2audio_files = None /\ manifest_filepath = None

VadIdle ==
    /\ data = <<>> /\ i = -1 /\ status = "none" /\ to_save = <<>>
    /\ all_len = 0 /\ frames = <<>>

EmbIdle ==
    /\ manifest_file = <<>> /\ uniq_names = <<>> /\ out_embeddings = <<>>
    /\ dirs = {} /\ embeddings_file = <<>> /\ pkl = <<>>

ScoreArgsIdle ==
    /\ pyannote = FALSE /\ window = 0 /\ shift = 0 /\ num_speakers = 0
    /\ rttm_dir = FALSE /\ rttm_files = {} /\ write_labels = TRUE

ScoreIdle ==
    /\ embeddings = <<>> /\ key_no = 0 /\ uniq_key = <<>> /\ identifier = <<>>
    /\ cluster_labels = <<>> /\ lines = <<>> /\ labels = <<>>
    /\ hypothesis = None /\ DER = 0 /\ metric = <<>> /\ txt = <<>>

InitMerge ==
    /\ pc = "combine_stamps"
    /\ entry = "combine_stamps"
    /\ err = "none"
    /\ \E q \in OrderedInputs : stamps = [j \in 1..Len(q) |-> LineText(q[j])]
    /\ combined = <<>>
    /\ recombined = <<>>
    /\ CfgIdle
    /\ VadIdle
    /\ EmbIdle
    /\ ScoreArgsIdle
    /\ ScoreIdle
    /\ result = "none"

\* labels = combine_stamps(lines)
CombineStamps ==
    /\ pc = "combine_stamps"
    /\ entry = "combine_stamps"
    /\ combined' = combine_stamps(stamps)
    /\ pc' = "combined"
    /\ UNCHANGED <<entry, err, stamps, recombined, notMerge>>

\* the merger applied to its own output
CombineAgain ==
    /\ pc = "combined"
    /\ entry = "combine_stamps"
    /\ recombined' = combine_stamps(combined)
    /\ pc' = "recombined"
    /\ UNCHANGED <<entry, err, stamps, combined, notMerge>>

NextMerge == CombineStamps \/ CombineAgain

SpecMerge == InitMerge /\ [][NextMerge]_vars

-----------------------------------------------------------------------------
(* Properties of combine_stamps.                                           *)

\* the fields of a label line, times as numbers
SegStart(t)   == Float(Split(t)[1])
SegEnd(t)     == Float(Split(t)[2])
SegSpeaker(t) == Split(t)[3]

Merged == pc \in {"combined", "recombined"} /\ entry = "combine_stamps"

\* C1: in the output of combine_stamps on a non-empty chronologically ordered
\* input, no two consecutive segments have the same speaker_tag while the
\* later one starts (as a number) at or before the earlier one's end.
C1_NoMergeableNeighbours ==
    Merged =>
        \A j \in 1..(Len(combined) - 1) :
            ~ ( /\ SegSpeaker(combined[j + 1]) = SegSpeaker(combined[j])
                /\ SegStart(combined[j + 1]) <= SegEnd(combined[j]) )

\* C2: merge idempotence: combine_stamps(combine_stamps(x)) = combine_stamps(x)
\* for every non-empty chronologically ordered x.
C2_MergeIdempotent ==
    (pc = "recombined" /\ entry = "combine_stamps") => recombined = combined

\* the time points [start, end) of the lines of speaker k; every time of the
\* model is a whole number
Horizon == (MaxSlot + MaxDur) * TimeStep

Cover(ls, k) ==
    { t \in 0..Horizon :
        \E j \in 1..Len(ls) :
            /\ SegSpeaker(ls[j]) = k
            /\ SegStart(ls[j]) <= t
            /\ t < SegEnd(ls[j]) }

\* C3: merge span conservation: for every speaker, the union of the speaker's
\* [start, end) intervals in the output equals the union in the input.
C3_SpanConserved ==
    Merged => \A k \in Speakers \cup {<<"unknown">>} : Cover(combined, k) = Cover(stamps, k)

\* C4: for an input of exactly one label line, combine_stamps emits exactly
\* one segment, with the start, end and speaker of that line.
C4_SingleLineKept ==
    (Merged /\ Len(stamps) = 1) =>
        /\ Len(combined) = 1
        /\ Split(combined[1]) = Split(stamps[1])

-----------------------------------------------------------------------------
(* Paths and names.                                                        *)

\* s.split(sep): the pieces between the separators, empty pieces kept
RECURSIVE SplitOnFrom(_, _, _, _)
SplitOnFrom(s, sep, cur, acc) ==
    IF s = <<>> THEN Append(acc, cur)
    ELSE IF Head(s) = sep
         THEN SplitOnFrom(Tail(s), sep, <<>>, Append(acc, cur))
         ELSE SplitOnFrom(Tail(s), sep, Append(cur, Head(s)), acc)

SplitOn(s, sep) == SplitOnFrom(s, sep, <<>>, <<>>)

\* sep.join(parts)
RECURSIVE Join(_, _)
Join(parts, sep) ==
    IF Len(parts) = 0 THEN <<>>
    ELSE IF Len(parts) = 1 THEN parts[1]
    ELSE parts[1] \o <<sep>> \o Join(Tail(parts), sep)

\* q[-1]
Last(q) == q[Len(q)]

\* q[-n:]
LastN(q, n) == IF Len(q) <= n THEN q ELSE SubSeq(q, Len(q) - n + 1, Len(q))

\* os.path.basename(p)
Basename(p) == Last(SplitOn(p, "/"))

\* os.path.splitext(name)[0]: name up to its last dot, a leading dot kept
Splitext0(name) ==
    LET dots == { k \in 2..Len(name) : name[k] = "." }
    IN  IF dots = {} THEN name
        ELSE SubSeq(name, 1, (CHOOSE k \in dots : \A m \in dots : m <= k) - 1)

AudioPaths ==
    { <<"/", "d", "/", "x", "/", "a", ".", "wav">>,
      <<"/", "d", "/", "x", "/", "b", ".", "wav">>,
      <<"y", "/", "a", ".", "wav">> }

\* a manifest line is a JSON object; only audio_filepath is read
ManifestsOf(lens) ==
    UNION { [1..n -> [audio_filepath : AudioPaths]] : n \in lens }

-----------------------------------------------------------------------------
(* _eval_vad                                                               *)

time_unit == time_length \div shift_length   \* int(time_length / shift_length)
trunc     == time_unit \div 2                \* int(time_unit / 2)
trunc_l   == time_unit - trunc

\* q[a:b] of Python: a negative index counts from the end, both are clamped
PyIndex(x, n) == IF x < 0 THEN (IF n + x < 0 THEN 0 ELSE n + x)
                 ELSE (IF x > n THEN n ELSE x)

PySlice(q, a, b) ==
    LET lo == PyIndex(a, Len(q))
        hi == PyIndex(b, Len(q))
    IN  IF lo < hi THEN SubSeq(q, lo + 1, hi) ELSE <<>>

\* q[k] of Python raises IndexError outside -len .. len - 1
InRange(q, k) == -Len(q) <= k /\ k < Len(q)

\* q[k] of Python, k in range
At(q, k) == IF k < 0 THEN q[Len(q) + k + 1] ELSE q[k + 1]

\* lines 210-222: the status of batch n, or "IndexError"
StatusOf(d, n) ==
    IF n = 0
    THEN IF ~InRange(d, n + 1) THEN "IndexError"
         ELSE IF At(d, n) = At(d, n + 1) THEN "start" ELSE "single"
    ELSE IF n = Len(d) - 1
    THEN IF At(d, n) = At(d, n - 1) THEN "end" ELSE "single"
    ELSE IF ~InRange(d, n + 1) THEN "IndexError"
    ELSE IF At(d, n) # At(d, n - 1) /\ At(d, n) = At(d, n + 1) THEN "start"
    ELSE IF At(d, n) = At(d, n - 1) /\ At(d, n) = At(d, n + 1) THEN "next"
    ELSE IF At(d, n) = At(d, n - 1) /\ At(d, n) # At(d, n + 1) THEN "end"
    ELSE "single"

\* pred = probs[:, 1]: one probability per frame of the batch; a probability
\* is known by the batch and the place it comes from
Pred(n) == [k \in 1..pred_len |-> [batch |-> n, frame |-> k - 1]]

\* lines 231-238
Trim(st, pred) ==
    IF st = "start" THEN PySlice(pred, 0, -trunc)
    ELSE IF st = "next" THEN PySlice(pred, trunc, -trunc_l)
    ELSE IF st = "end" THEN PySlice(pred, trunc_l, Len(pred))
    ELSE pred

\* open(name, "w") and the writes: what the file held is lost
WriteTo(files, name, written) ==
    [f \in DOMAIN files \cup {name} |-> IF f = name THEN written ELSE files[f]]

\* open(name, "a") and the writes: the file is made if it is not there
AppendTo(files, name, written) ==
    IF name \in DOMAIN files
    THEN [files EXCEPT ![name] = @ \o written]
    ELSE [f \in DOMAIN files \cup {name} |-> IF f = name THEN written ELSE files[f]]

\* a diarize that runs the VAD set-up and _eval_vad again when _eval_vad returns
ReturnToSetup(fn) ==
    IF entry = "diarize"
    THEN (IF fn = "_eval_vad" THEN "diarize_308" ELSE "diarize_314")
    ELSE "returned"

\* where a finished call goes on: lines 309-314 in diarize
Return(fn) ==
    IF entry = "diarize"
    THEN (IF fn = "_eval_vad" THEN "diarize_313" ELSE "diarize_314")
    ELSE "returned"

\* lines 198-208
EvalVadEnter ==
    /\ pc = "_eval_vad"
    /\ all_len' = 0
    /\ data' = [n \in 1..Len(manifest) |->
                    Splitext0(Basename(manifest[n].audio_filepath))]
    /\ i' = -1
    /\ pc' = "vad_for"
    /\ UNCHANGED <<entry, err, notVad, status, to_save, frames>>

\* line 209: the data loader gives one batch per manifest line
EvalVadFor ==
    /\ pc = "vad_for"
    /\ IF i + 1 < Len(manifest)
       THEN i' = i + 1 /\ pc' = "vad_status"
       ELSE i' = i /\ pc' = Return("_eval_vad")
    /\ UNCHANGED <<entry, err, notVad, data, status, to_save, all_len, frames>>

\* lines 210-223
EvalVadStatus ==
    /\ pc = "vad_status"
    /\ IF StatusOf(data, i) = "IndexError"
       THEN pc' = "raised" /\ err' = "IndexError" /\ status' = status
       ELSE pc' = "vad_trim" /\ err' = err /\ status' = StatusOf(data, i)
    /\ UNCHANGED <<entry, notVad, data, i, to_save, all_len, frames>>

\* lines 225-239
EvalVadTrim ==
    /\ pc = "vad_trim"
    /\ to_save' = Trim(status, Pred(i))
    /\ all_len' = all_len + Len(to_save')
    /\ pc' = "vad_write"
    /\ UNCHANGED <<entry, err, notVad, data, i, status, frames>>

\* lines 241-244
EvalVadWrite ==
    /\ pc = "vad_write"
    /\ frames' = AppendTo(frames, At(data, i) \o <<".", "frame">>, to_save)
    /\ pc' = "vad_next"
    /\ UNCHANGED <<entry, err, notVad, data, i, status, to_save, all_len>>

\* lines 246-249
EvalVadNext ==
    /\ pc = "vad_next"
    /\ all_len' = IF status \in {"end", "single"} THEN 0 ELSE all_len
    /\ pc' = "vad_for"
    /\ UNCHANGED <<entry, err, notVad, data, i, status, to_save, frames>>

InitVad ==
    /\ pc = "_eval_vad"
    /\ entry = "_eval_vad"
    /\ err = "none"
    /\ MergeIdle
    /\ time_length \in 1..MaxTimeLength
    /\ shift_length \in 1..MaxShiftLength
    /\ manifest \in ManifestsOf(0..MaxEntries)
    /\ pred_len \in 1..MaxPredLen
    /\ paths2audio_files = None /\ manifest_filepath = None
    /\ VadIdle
    /\ EmbIdle
    /\ ScoreArgsIdle
    /\ ScoreIdle
    /\ result = "none"

NextVad ==
    \/ EvalVadEnter
    \/ EvalVadFor
    \/ EvalVadStatus
    \/ EvalVadTrim
    \/ EvalVadWrite
    \/ EvalVadNext

SpecVad == InitVad /\ [][NextVad]_vars

-----------------------------------------------------------------------------
(* Properties of _eval_vad.                                                *)

\* the trim rule of the design: trunc_front = T // 2 and trunc_back = T -
\* trunc_front; start keeps the first L - trunc_front, end the last
\* L - trunc_back, next the indices trunc_back .. L - trunc_front - 1, single all
RuleKeeps(st, pred) ==
    LET trunc_front == time_unit \div 2
        trunc_back  == time_unit - trunc_front
        L           == Len(pred)
    IN  IF st = "start" THEN SubSeq(pred, 1, L - trunc_front)
        ELSE IF st = "end" THEN SubSeq(pred, trunc_back + 1, L)
        ELSE IF st = "next" THEN SubSeq(pred, trunc_back + 1, L - trunc_front)
        ELSE pred

\* C5: for every T >= 1 and every window of L >= T samples the stitcher
\* keeps what the trim rule says for the window's status.
C5_TrimRule ==
    (pc = "vad_write" /\ time_unit >= 1 /\ pred_len >= time_unit) =>
        to_save = RuleKeeps(status, Pred(i))

\* the status the neighbourhood of window n gives, a missing neighbour
\* counting as different
NeighbourStatus(d, n) ==
    LET prevSame == n >= 1 /\ d[n + 1] = d[n]
        nextSame == n + 2 <= Len(d) /\ d[n + 1] = d[n + 2]
    IN  IF ~prevSame /\ ~nextSame THEN "single"
        ELSE IF ~prevSame /\ nextSame THEN "start"
        ELSE IF prevSame /\ nextSame THEN "next"
        ELSE "end"

\* C6: in every non-empty batch (one window included) every window gets the
\* status its neighbourhood gives: single, start, next or end.
C6_StatusByNeighbours ==
    (entry = "_eval_vad" /\ pc \in {"vad_trim", "vad_write", "vad_next", "raised"}) =>
        /\ err = "none"
        /\ status = NeighbourStatus(data, i)

\* the batch is one run of n >= 2 windows of one recording
OneRun == Len(data) >= 2 /\ \A j \in 1..Len(data) : data[j] = data[1]

\* window n covers the slots n * (L - ov) .. n * (L - ov) + L - 1, when
\* consecutive windows overlap by ov slots
SlotOf(p, ov) == p.batch * (pred_len - ov) + p.frame

\* the trace file of the run holds every slot of the run once, in order
RunContinuous(ov) ==
    LET f     == frames[data[1] \o <<".", "frame">>]
        total == (Len(data) - 1) * (pred_len - ov) + pred_len
    IN  /\ data[1] \o <<".", "frame">> \in DOMAIN frames
        /\ Len(f) = total
        /\ \A k \in 1..total : SlotOf(f[k], ov) = k - 1

\* C7: stitcher continuity: for a run of n >= 2 windows of one recording that
\* overlap by window_length - shift_length (T - 1 slots), the trimmed windows
\* put together hold every slot of the run exactly once, in time order.
C7_StitcherContinuity ==
    ( /\ entry = "_eval_vad" /\ pc = "returned" /\ OneRun
      /\ time_unit >= 1 /\ pred_len >= time_unit ) =>
        RunContinuous(time_unit - 1)

-----------------------------------------------------------------------------
(* _extract_embeddings                                                     *)

\* a Python dict: its items in insertion order
DictKeys(d) == { d[k].key : k \in 1..Len(d) }

DictGet(d, key) == (CHOOSE k \in 1..Len(d) : d[k].key = key)

\* d[key] = val: a new key is added at the end, an old one keeps its place
DictPut(d, key, val) ==
    IF key \in DictKeys(d)
    THEN [d EXCEPT ![DictGet(d, key)] = [key |-> key, val |-> val]]
    ELSE Append(d, [key |-> key, val |-> val])

\* lines 259-260: '@'.join(audio_filepath.split('/')[-3:])
UniqName(path) == Join(LastN(SplitOn(path, "/"), 3), "@")

OutDir == <<"out_dir">>
EmbeddingDir == OutDir \o <<"/", "embeddings">>   \* os.path.join(out_dir, 'embeddings')

\* lines 253-255
ExtractEnter ==
    /\ pc = "_extract_embeddings"
    /\ uniq_names' = <<>>
    /\ out_embeddings' = <<>>
    /\ pc' = "emb_read"
    /\ UNCHANGED <<entry, err, i, notEmb, manifest_file, dirs, embeddings_file, pkl>>

\* lines 256-262, one manifest line; the message of line 262 names uniq_name,
\* which nothing binds
ExtractRead ==
    /\ pc = "emb_read"
    /\ IF Len(uniq_names) < Len(manifest)
       THEN LET name == UniqName(manifest[Len(uniq_names) + 1].audio_filepath)
            IN  /\ uniq_names' = Append(uniq_names, name)
                /\ IF name \in DictKeys(out_embeddings)
                   THEN pc' = "raised" /\ err' = "NameError"
                   ELSE pc' = "emb_read" /\ err' = err
                /\ i' = i
       ELSE /\ pc' = "emb_for"
            /\ i' = -1
            /\ UNCHANGED <<uniq_names, err>>
    /\ UNCHANGED <<entry, notEmb, manifest_file, out_embeddings, dirs, embeddings_file, pkl>>

\* line 264: the data loader gives one batch per manifest line
ExtractFor ==
    /\ pc = "emb_for"
    /\ IF i + 1 < Len(manifest)
       THEN i' = i + 1 /\ pc' = "emb_store"
       ELSE i' = i /\ pc' = "emb_save"
    /\ UNCHANGED <<entry, err, notEmb, embVars>>

\* lines 265-270: the mean embedding of batch i is known by its batch
ExtractStore ==
    /\ pc = "emb_store"
    /\ out_embeddings' = DictPut(out_embeddings, At(uniq_names, i), [batch |-> i])
    /\ pc' = "emb_for"
    /\ UNCHANGED <<entry, err, i, notEmb, manifest_file, uniq_names, dirs,
                   embeddings_file, pkl>>

\* lines 272-281
ExtractSave ==
    /\ pc = "emb_save"
    /\ dirs' = dirs \cup {EmbeddingDir}
    /\ LET parts == SplitOn(Last(SplitOn(manifest_file, "/")), ".")
       IN  IF ~InRange(parts, -2)
           THEN /\ pc' = "raised"
                /\ err' = "IndexError"
                /\ UNCHANGED <<embeddings_file, pkl>>
           ELSE LET name == EmbeddingDir \o <<"/">> \o At(parts, -2)
                                \o <<"_embeddings", ".", "pkl">>
                IN  /\ embeddings_file' = name
                    /\ pkl' = DictPut(pkl, name, out_embeddings)
                    /\ pc' = Return("_extract_embeddings")
                    /\ err' = err
    /\ UNCHANGED <<entry, i, notEmb, manifest_file, uniq_names, out_embeddings>>

\* the manifest_file arguments: the one diarize passes, and a file path
ManifestFileArgs ==
    { <<"vad_output_file">>, <<"out_dir", "/", "manifest", ".", "json">> }

InitEmb ==
    /\ pc = "_extract_embeddings"
    /\ entry = "_extract_embeddings"
    /\ err = "none"
    /\ MergeIdle
    /\ VadIdle
    /\ time_length = 1 /\ shift_length = 1 /\ pred_len = 1
    /\ paths2audio_files = None /\ manifest_filepath = None
    /\ manifest \in ManifestsOf(0..MaxEntries)
    /\ manifest_file \in ManifestFileArgs
    /\ uniq_names = <<>> /\ out_embeddings = <<>>
    /\ dirs \in {{OutDir}, {OutDir, EmbeddingDir}}
    /\ embeddings_file = <<>> /\ pkl = <<>>
    /\ ScoreArgsIdle
    /\ ScoreIdle
    /\ result = "none"

NextEmb ==
    \/ ExtractEnter
    \/ ExtractRead
    \/ ExtractFor
    \/ ExtractStore
    \/ ExtractSave

SpecEmb == InitEmb /\ [][NextEmb]_vars

-----------------------------------------------------------------------------
(* Properties of _extract_embeddings.                                      *)

\* the batches whose embedding has been stored
Stored ==
    IF pc \in {"_extract_embeddings", "emb_read"} THEN {}
    ELSE IF pc = "emb_store" THEN 0..(i - 1)
    ELSE 0..i

\* C8: duplicate key rejection: no key of the embedding store is written a
\* second time, and a run over a manifest with two entries of one key ends
\* with an error instead of storing both.
C8_DuplicateKeyRejected ==
    entry = "_extract_embeddings" =>
        /\ \A a, b \in Stored : a < b => At(uniq_names, a) # At(uniq_names, b)
        /\ ( /\ \E a, b \in 1..Len(manifest) :
                   /\ a < b
                   /\ UniqName(manifest[a].audio_filepath) = UniqName(manifest[b].audio_filepath)
             /\ pc \in {"emb_save", "returned", "raised"} )
           => (pc = "raised" /\ err \in {"KeyError", "NameError"})

-----------------------------------------------------------------------------
(* get_score                                                               *)

\* os.path.dirname(p)
Dirname(p) ==
    LET parts == SplitOn(p, "/")
    IN  Join(SubSeq(parts, 1, Len(parts) - 1), "/")

\* line 112: uniq_key.split('@')[-1].split('.')[0]
IdentifierOf(key) == SplitOn(Last(SplitOn(key, "@")), ".")[1]

\* raw label lines that count the windows from 1
RawLinesFromOne(cl) ==
    [n \in 1..Len(cl) |->
        LET start_time == n * shift
            end_time   == start_time + window
        IN  Format3(Str(start_time), Str(end_time), Tag(cl[n]))]

\* lines 116-122: the raw label lines of the cluster labels
RawLines(cl) ==
    [n \in 1..Len(cl) |->
        LET start_time == (n - 1) * shift
            end_time   == start_time + window
        IN  Format3(Str(start_time), Str(end_time), Tag(cl[n]))]

\* lines 63-67: what write_label_file writes
LabelFile(ls) ==
    [n \in 1..Len(ls) |->
        LET f == Split(ls[n]) IN FormatTab(f[1], f[2], f[3])]

\* lines 91-98: an annotation is known by its uri and its segments
Annotation(ls, uri) ==
    [uri |-> uri,
     segments |-> [n \in 1..Len(ls) |->
                     LET f == Split(ls[n])
                     IN  [start |-> Float(f[1]), end |-> Float(f[2]), speaker |-> f[3]]]]

\* line 136
Abs(x) == IF x < 0 THEN -x ELSE x

\* lines 102-109; lines 24-25 leave the pyannote names unbound unless the
\* caller binds them
ScoreEnter ==
    /\ pc = "get_score"
    /\ embeddings' = pkl[DictGet(pkl, embeddings_file)].val
    /\ IF pyannote
       THEN pc' = "score_for" /\ err' = err
       ELSE pc' = "raised" /\ err' = "NameError"
    /\ DER' = 0
    /\ key_no' = 0
    /\ UNCHANGED <<entry, result, notScore, uniq_key, identifier, cluster_labels, lines,
                   labels, hypothesis, metric, txt>>

\* line 110 and line 136
ScoreFor ==
    /\ pc = "score_for"
    /\ IF key_no < Len(embeddings)
       THEN /\ key_no' = key_no + 1
            /\ uniq_key' = embeddings[key_no + 1].key
            /\ pc' = "score_cluster"
            /\ result' = result
       ELSE /\ result' = Abs(DER)
            /\ pc' = Return("get_score")
            /\ UNCHANGED <<key_no, uniq_key>>
    /\ UNCHANGED <<entry, err, notScore, embeddings, identifier, cluster_labels, lines,
                   labels, hypothesis, DER, metric, txt>>

\* lines 111-115: the clustering gives one label per embedding window
ScoreCluster ==
    /\ pc = "score_cluster"
    /\ identifier' = IdentifierOf(uniq_key)
    /\ \E n \in 1..MaxLabels :
         cluster_labels' \in [1..n -> 0..(num_speakers - 1)]
    /\ pc' = "score_lines"
    /\ UNCHANGED <<entry, err, result, notScore, embeddings, key_no, uniq_key, lines,
                   labels, hypothesis, DER, metric, txt>>

\* lines 116-122
ScoreLines ==
    /\ pc = "score_lines"
    /\ lines' = RawLines(cluster_labels)
    /\ pc' = "score_merge"
    /\ UNCHANGED <<entry, err, result, notScore, embeddings, key_no, uniq_key, identifier,
                   cluster_labels, labels, hypothesis, DER, metric, txt>>

\* a merge step that writes the label file at once, before the scoring
ScoreMergeAndWrite ==
    /\ pc = "score_merge"
    /\ labels' = combine_stamps(lines)
    /\ txt' = DictPut(txt, Dirname(embeddings_file) \o <<"/">> \o identifier
                              \o <<".", "txt">>, LabelFile(combine_stamps(lines)))
    /\ pc' = "score_reference"
    /\ UNCHANGED <<entry, err, result, notScore, embeddings, key_no, uniq_key, identifier,
                   cluster_labels, lines, hypothesis, DER, metric>>

\* line 124
ScoreMerge ==
    /\ pc = "score_merge"
    /\ labels' = combine_stamps(lines)
    /\ pc' = "score_reference"
    /\ UNCHANGED <<entry, err, result, notScore, embeddings, key_no, uniq_key, identifier,
                   cluster_labels, lines, hypothesis, DER, metric, txt>>

\* lines 125-129: rttm_to_labels opens the file; the metric is given the
\* hypothesis variable as it is
ScoreReference ==
    /\ pc = "score_reference"
    /\ IF ~rttm_dir
       THEN pc' = "score_hypothesis" /\ UNCHANGED <<err, DER, metric>>
       ELSE IF identifier \notin rttm_files
       THEN pc' = "raised" /\ err' = "FileNotFoundError" /\ UNCHANGED <<DER, metric>>
       ELSE IF hypothesis = None
       THEN pc' = "raised" /\ err' = "UnboundLocalError" /\ UNCHANGED <<DER, metric>>
       ELSE /\ DER' \in 1..MaxDER
            /\ metric' = Append(metric, [reference |-> identifier, hypothesis |-> hypothesis.val])
            /\ pc' = "score_hypothesis"
            /\ err' = err
    /\ UNCHANGED <<entry, result, notScore, embeddings, key_no, uniq_key, identifier,
                   cluster_labels, lines, labels, hypothesis, txt>>

\* line 130
ScoreHypothesis ==
    /\ pc = "score_hypothesis"
    /\ hypothesis' = Some(Annotation(labels, identifier))
    /\ pc' = "score_write"
    /\ UNCHANGED <<entry, err, result, notScore, embeddings, key_no, uniq_key, identifier,
                   cluster_labels, lines, labels, DER, metric, txt>>

\* lines 131-134: open(filename, 'w') replaces the file
ScoreWrite ==
    /\ pc = "score_write"
    /\ txt' = IF write_labels
              THEN DictPut(txt, Dirname(embeddings_file) \o <<"/">> \o identifier
                                    \o <<".", "txt">>, LabelFile(labels))
              ELSE txt
    /\ pc' = "score_for"
    /\ UNCHANGED <<entry, err, result, notScore, embeddings, key_no, uniq_key, identifier,
                   cluster_labels, lines, labels, hypothesis, DER, metric>>

\* the keys _extract_embeddings makes of the audio paths
UniqKeys == { UniqName(a) : a \in AudioPaths }

\* the embedding stores of 0 .. MaxKeys different keys
Stores ==
    UNION { { q \in [1..n -> [key : UniqKeys, val : {[batch |-> 0]}]] :
                \A a, b \in 1..n : a # b => q[a].key # q[b].key } : n \in 0..MaxKeys }

StoreFile == EmbeddingDir \o <<"/", "manifest", "_embeddings", ".", "pkl">>

Identifiers == { IdentifierOf(k) : k \in UniqKeys }

InitScore ==
    /\ pc = "get_score"
    /\ entry = "get_score"
    /\ err = "none"
    /\ result = "none"
    /\ i = -1
    /\ MergeIdle
    /\ CfgIdle
    /\ data = <<>> /\ status = "none" /\ to_save = <<>> /\ all_len = 0 /\ frames = <<>>
    /\ manifest_file = <<>> /\ uniq_names = <<>> /\ out_embeddings = <<>>
    /\ dirs = {OutDir, EmbeddingDir}
    /\ embeddings_file = StoreFile
    /\ \E st \in Stores : pkl = <<[key |-> StoreFile, val |-> st]>>
    /\ pyannote \in BOOLEAN
    /\ shift = TimeStep
    /\ window \in { d * TimeStep : d \in 1..MaxDur }
    /\ num_speakers = MaxSpeakers
    /\ rttm_dir \in BOOLEAN
    /\ rttm_files \in SUBSET Identifiers
    /\ rttm_dir = FALSE => rttm_files = {}
    /\ write_labels \in BOOLEAN
    /\ ScoreIdle

NextScore ==
    \/ ScoreEnter
    \/ ScoreFor
    \/ ScoreCluster
    \/ ScoreLines
    \/ ScoreMerge
    \/ ScoreReference
    \/ ScoreHypothesis
    \/ ScoreWrite

SpecScore == InitScore /\ [][NextScore]_vars

-----------------------------------------------------------------------------
(* Properties of get_score.                                                *)

\* C9: when a recording has no ground-truth file (the reference directory is
\* missing, or it has no file of the recording), the reference step computes
\* no DER, leaves DER as it was, raises nothing and goes on to the
\* recording's hypothesis and label file.
C9_MissingReferenceSkipped ==
    [][ ( /\ pc = "score_reference"
          /\ (~rttm_dir \/ identifier \notin rttm_files) )
        => ( /\ err' = "none"
             /\ DER' = DER
             /\ metric' = metric
             /\ pc' = "score_hypothesis" ) ]_vars

-----------------------------------------------------------------------------
(* diarize                                                                 *)

\* a guard that knows None but not the empty list
DiarizeEnterNoneOnly ==
    /\ pc = "diarize"
    /\ IF paths2audio_files = None /\ manifest_filepath = None
       THEN result' = "{}" /\ pc' = "returned"
       ELSE result' = result /\ pc' = "diarize_290"
    /\ UNCHANGED <<entry, err, i, mergeVars, cfgVars, vadVars, embVars, scoreArgs, scoreVars>>

\* lines 287-288
DiarizeEnter ==
    /\ pc = "diarize"
    /\ IF /\ (paths2audio_files = None \/ Len(paths2audio_files.val) = 0)
          /\ manifest_filepath = None
       THEN result' = "{}" /\ pc' = "returned"
       ELSE result' = result /\ pc' = "diarize_290"
    /\ UNCHANGED <<entry, err, i, mergeVars, cfgVars, vadVars, embVars, scoreArgs, scoreVars>>

\* lines 290-291
DiarizeMkdir ==
    /\ pc = "diarize_290"
    /\ dirs' = dirs \cup {OutDir}
    /\ pc' = "diarize_297"
    /\ UNCHANGED <<entry, err, i, result, mergeVars, cfgVars, vadVars, scoreArgs, scoreVars,
                   manifest_file, uniq_names, out_embeddings, embeddings_file, pkl>>

\* lines 297-304: the manifest is written from the paths, or is the
\* configured one
DiarizeManifest ==
    /\ pc = "diarize_297"
    /\ manifest' = IF paths2audio_files # None
                   THEN [n \in 1..Len(paths2audio_files.val) |->
                            [audio_filepath |-> paths2audio_files.val[n]]]
                   ELSE manifest_filepath.val
    /\ pc' = "diarize_308"
    /\ UNCHANGED <<entry, err, i, result, mergeVars, vadVars, embVars, scoreArgs, scoreVars,
                   time_length, shift_length, pred_len, paths2audio_files,
                   manifest_filepath>>

\* lines 306-309: the VAD data loader is set on the manifest, _eval_vad is called
DiarizeEvalVad ==
    /\ pc = "diarize_308"
    /\ pc' = "_eval_vad"
    /\ UNCHANGED <<entry, err, i, result, mergeVars, cfgVars, vadVars, embVars, scoreArgs,
                   scoreVars>>

\* line 313
DiarizeExtract ==
    /\ pc = "diarize_313"
    /\ manifest_file' = <<"vad_output_file">>
    /\ pc' = "_extract_embeddings"
    /\ UNCHANGED <<entry, err, i, result, mergeVars, cfgVars, vadVars, scoreArgs, scoreVars,
                   uniq_names, out_embeddings, dirs, embeddings_file, pkl>>

\* Lines 314-316 have no step: _extract_embeddings("vad_output_file") never
\* returns, "vad_output_file".split('.')[-2] of line 276 raising IndexError.

PathLists(lens) == UNION { [1..n -> AudioPaths] : n \in lens }

InitDiarize ==
    /\ pc = "diarize"
    /\ entry = "diarize"
    /\ err = "none"
    /\ result = "none"
    /\ MergeIdle
    /\ time_length \in 1..MaxTimeLength
    /\ shift_length \in 1..MaxShiftLength
    /\ pred_len \in 1..MaxPredLen
    /\ manifest = <<>>
    /\ \/ /\ paths2audio_files = None
          /\ manifest_filepath \in {None} \cup { Some(m) : m \in ManifestsOf(0..MaxEntries) }
       \/ /\ paths2audio_files \in { Some(q) : q \in PathLists(0..MaxEntries) }
          /\ manifest_filepath \in {None} \cup { Some(m) : m \in ManifestsOf({1}) }
    /\ VadIdle
    /\ manifest_file = <<>> /\ uniq_names = <<>> /\ out_embeddings = <<>>
    /\ dirs \in {{}, {OutDir}}
    /\ embeddings_file = <<>> /\ pkl = <<>>
    /\ ScoreArgsIdle
    /\ ScoreIdle

NextDiarize ==
    \/ DiarizeEnter
    \/ DiarizeMkdir
    \/ DiarizeManifest
    \/ DiarizeEvalVad
    \/ DiarizeExtract

\* a run is a call of diarize or a call of get_score
Init == InitDiarize \/ InitScore

Next == NextDiarize \/ NextVad \/ NextEmb \/ NextScore

Spec == Init /\ [][Next]_vars

-----------------------------------------------------------------------------
(* Properties of a run.                                                    *)

\* the state of the orchestrator's state machine a statement belongs to; the
\* loop head of get_score belongs to the recording just finished
Stage ==
    IF pc \in {"diarize", "diarize_290", "diarize_297", "diarize_308"} THEN "IDLE"
    ELSE IF pc \in {"_eval_vad", "vad_for", "vad_status", "vad_trim", "vad_write",
                    "vad_next"} THEN "VAD_RUNNING"
    ELSE IF pc \in {"diarize_313", "_extract_embeddings", "emb_read", "emb_for",
                    "emb_store", "emb_save"} THEN "EMBEDDING_RUNNING"
    ELSE IF pc \in {"diarize_314", "get_score", "score_cluster", "score_lines"}
         THEN "CLUSTERING"
    ELSE IF pc = "score_for" THEN (IF key_no = 0 THEN "CLUSTERING"
                                   ELSE "MERGING_AND_SCORING")
    ELSE IF pc \in {"score_merge", "score_reference", "score_hypothesis",
                    "score_write"} THEN "MERGING_AND_SCORING"
    ELSE IF pc = "raised" THEN "ABORTED"
    ELSE "DONE"

\* the place of a state in IDLE -> VAD_RUNNING -> EMBEDDING_RUNNING ->
\* CLUSTERING -> MERGING_AND_SCORING -> DONE; an aborted run is over
Rank(st) ==
    CASE st = "IDLE" -> 0
      [] st = "VAD_RUNNING" -> 1
      [] st = "EMBEDDING_RUNNING" -> 2
      [] st = "CLUSTERING" -> 3
      [] st = "MERGING_AND_SCORING" -> 4
      [] OTHER -> 5

EmptyInput ==
    /\ entry = "diarize"
    /\ paths2audio_files = None \/ Len(paths2audio_files.val) = 0
    /\ manifest_filepath = None

\* C11: diarize called with no audio paths and no configured manifest
\* returns the empty result in its first step, raises nothing, runs no VAD,
\* embedding extraction or scoring, and creates no directory and no file.
C11_EmptyInputReturns ==
    [][ EmptyInput
        => /\ pc' = "returned"
           /\ result' = "{}"
           /\ err' = "none"
           /\ dirs' = dirs
           /\ manifest' = manifest
           /\ frames' = frames
           /\ pkl' = pkl
           /\ txt' = txt ]_vars

\* diarize has returned from a call with an empty list of paths where no
\* output directory exists
C11_Witness ==
    /\ EmptyInput
    /\ paths2audio_files = Some(<<>>)
    /\ pc = "returned"
    /\ result = "{}"
    /\ dirs = {}

\* the label file get_score writes for an identifier
LabelPath(id) == Dirname(embeddings_file) \o <<"/">> \o id \o <<".", "txt">>

\* the raw lines of the recording in hand are built (lines 116-122 are done)
LinesBuilt ==
    \/ pc \in {"score_merge", "score_reference", "score_hypothesis", "score_write"}
    \/ pc = "score_for" /\ key_no >= 1

\* the recording in hand is merged (line 124 is done)
LinesMerged ==
    \/ pc \in {"score_reference", "score_hypothesis", "score_write"}
    \/ pc = "score_for" /\ key_no >= 1

\* C12: the raw label sequence of a recording with N cluster labels has N
\* lines in input order, line n (0-based) starting at n * shift, ending at
\* n * shift + window and tagged 'speaker_' + label; what is scored or
\* written is never the raw sequence but combine_stamps of it.
C12_RawLabelLines ==
    /\ LinesBuilt =>
         /\ Len(lines) = Len(cluster_labels)
         /\ \A n \in 1..Len(lines) :
              LET f == Split(lines[n])
              IN  /\ Len(f) = 3
                  /\ Float(f[1]) = (n - 1) * shift
                  /\ Float(f[2]) = (n - 1) * shift + window
                  /\ f[3] = <<"speaker_">> \o Str(cluster_labels[n])
    /\ LinesMerged => labels = combine_stamps(lines)
    /\ (pc \in {"score_write", "score_for"} /\ hypothesis # None)
         => hypothesis.val = Annotation(combine_stamps(lines), identifier)
    /\ (pc = "score_for" /\ key_no >= 1 /\ write_labels)
         => txt[DictGet(txt, LabelPath(identifier))].val
              = LabelFile(combine_stamps(lines))

\* a recording of two or more cluster labels has been merged and written
C12_Witness ==
    /\ pc = "score_for"
    /\ key_no >= 1
    /\ write_labels
    /\ Len(cluster_labels) >= 2
    /\ Len(lines) = Len(cluster_labels)
    /\ LabelPath(identifier) \in DictKeys(txt)

\* C13 as stated: nothing of a recording is durably written (trace file,
\* embedding store, label file) before the recording is through its last
\* stage: every write is the step that follows the scoring of the recording.
C13_WrittenAfterCompletion ==
    [][ (frames' # frames \/ pkl' # pkl \/ txt' # txt) => pc = "score_write" ]_vars

\* C13 as amended: every stage writes its own output: the trace file gets
\* the kept samples of a window in the VAD stage, the embedding store is
\* written at the end of the embedding stage, and only the label file of a
\* recording is written after the recording is clustered, merged and scored.
C13_WrittenByOwnStage ==
    [][ /\ frames' # frames => (pc = "vad_write" /\ Stage = "VAD_RUNNING")
        /\ pkl' # pkl => (pc = "emb_save" /\ Stage = "EMBEDDING_RUNNING")
        /\ txt' # txt => (pc = "score_write" /\ Stage = "MERGING_AND_SCORING")
      ]_vars

\* a trace file holds samples while diarize is still in its VAD stage, the
\* embedding, clustering, merging and scoring all being ahead
C13_Witness ==
    /\ entry = "diarize"
    /\ Stage = "VAD_RUNNING"
    /\ frames # <<>>
    /\ pkl = <<>>
    /\ txt = <<>>

-----------------------------------------------------------------------------
(* Properties of the accumulator and the trace files of _eval_vad.         *)

\* the recording of batch n (0-based) is the audio file of its manifest line
RecordingOf(n) == manifest[n + 1].audio_filepath

\* batch n is the first window of its recording
FirstOfRecording(n) == n = 0 \/ RecordingOf(n) # RecordingOf(n - 1)

RECURSIVE RunStart(_)
\* the first window of the recording batch n belongs to
RunStart(n) == IF FirstOfRecording(n) THEN n ELSE RunStart(n - 1)

\* the samples kept of batch n
Kept(n) == Trim(StatusOf(data, n), Pred(n))

RECURSIVE KeptSince(_, _)
\* the number of samples kept of the batches m .. n
KeptSince(m, n) == IF m > n THEN 0 ELSE KeptSince(m, n - 1) + Len(Kept(n))

\* C14: the accumulated sample count is 0 when the first window of a run
\* (start or single) is processed, is the number of samples kept of the
\* windows of the recording in hand once a window is trimmed, and is 0 again
\* after the last window of the run (end or single); it never counts samples
\* of two recordings.
C14_AccumulatorPerRecording ==
    /\ (pc = "vad_trim" /\ status \in {"start", "single"}) => all_len = 0
    /\ (pc = "vad_trim" /\ FirstOfRecording(i)) => all_len = 0
    /\ pc \in {"vad_write", "vad_next"} => all_len = KeptSince(RunStart(i), i)
    /\ (pc = "vad_for" /\ i >= 0 /\ status \in {"end", "single"}) => all_len = 0

-----------------------------------------------------------------------------
(* Properties of the scoring and the label files of get_score.             *)

\* C15: when the reference of the recording in hand is there, the metric is
\* given that reference and the hypothesis made of the merged labels of the
\* same recording, for the first recording as for every later one.
C15_HypothesisOfSameRecording ==
    [][ ( /\ pc = "score_reference"
          /\ rttm_dir
          /\ identifier \in rttm_files )
        => ( /\ err' = "none"
             /\ metric' = Append(metric, [reference |-> identifier,
                                          hypothesis |-> Annotation(labels, identifier)]) )
      ]_vars
\* C16: when get_score has gone over a store of n keys and writes labels,
\* there are n label files, one per key, none written over by another key,
\* and the file of the key done last holds its merged segments, one
\* tab-separated line per segment.
C16_LabelFilePerKey ==
    (pc = "returned" /\ entry = "get_score" /\ write_labels)
        => /\ Len(txt) = Len(embeddings)
           /\ Len(embeddings) > 0
                => txt[DictGet(txt, LabelPath(identifier))].val = LabelFile(labels)
           /\ \A a, b \in 1..Len(embeddings) :
                a # b => LabelPath(IdentifierOf(embeddings[a].key))
                           # LabelPath(IdentifierOf(embeddings[b].key))

\* C17: a recording whose reference is there is scored, its DER taking the
\* place of the one before; the value get_score returns is the absolute
\* value of the DER of the recording scored last, never negative, and 0 when
\* no recording was scored.
C17_ReturnsLastDER ==
    [][ /\ ( /\ pc = "score_reference"
             /\ rttm_dir
             /\ identifier \in rttm_files )
           => ( /\ err' = "none"
                /\ Len(metric') = Len(metric) + 1
                /\ DER' >= 0 )
        /\ ( /\ entry = "get_score"
             /\ pc = "score_for"
             /\ pc' = "returned" )
           => ( /\ result' = Abs(DER)
                /\ result' >= 0
                /\ metric = <<>> => result' = 0 )
      ]_vars

-----------------------------------------------------------------------------
(* Properties of diarize and the trace files.                              *)

\* C18: in a call of diarize, whatever the audio paths and the configured
\* manifest are, _eval_vad runs only on a manifest of at least one entry.
C18_NoEmptyBatch ==
    (entry = "diarize" /\ Stage = "VAD_RUNNING") => Len(manifest) >= 1
\* the trace file of an identity
TracePath(r) == r \o <<".", "frame">>

RECURSIVE KeptOf(_, _)
\* the samples kept of the windows 0 .. n of identity r, in input order
KeptOf(r, n) ==
    IF n < 0 THEN <<>>
    ELSE KeptOf(r, n - 1) \o (IF At(data, n) = r THEN Kept(n) ELSE <<>>)

\* the last window whose samples are written
LastWritten == IF pc \in {"vad_status", "vad_trim", "vad_write"} THEN i - 1 ELSE i

\* q is the beginning of r
IsPrefix(q, r) == Len(q) <= Len(r) /\ SubSeq(r, 1, Len(q)) = q

\* the trace files are those of the windows written so far, each holding
\* the kept samples of its identity's windows in input order
TracesSoFar ==
    pc \in {"vad_for", "vad_status", "vad_trim", "vad_write", "vad_next", "returned"}
        => /\ DOMAIN frames = { TracePath(At(data, n)) : n \in 0..LastWritten }
           /\ \A n \in 0..LastWritten :
                frames[TracePath(At(data, n))] = KeptOf(At(data, n), LastWritten)

\* C19: a step of _eval_vad that writes appends the kept samples of the
\* window to the end of the trace file of the window's identity and to no
\* other file; no step takes a file away or changes what a file holds; so
\* during and after a pass the file of an identity holds the kept samples of
\* all its windows so far, in input order.
C19_TraceFilesAppendOnly ==
    [][ /\ \A f \in DOMAIN frames :
             f \in DOMAIN frames' /\ IsPrefix(frames[f], frames'[f])
        /\ pc = "vad_write"
             => /\ TracePath(At(data, i)) \in DOMAIN frames'
                /\ frames'[TracePath(At(data, i))]
                     = (IF TracePath(At(data, i)) \in DOMAIN frames
                        THEN frames[TracePath(At(data, i))] ELSE <<>>) \o to_save
                /\ \A f \in DOMAIN frames' :
                     f # TracePath(At(data, i))
                       => (f \in DOMAIN frames /\ frames'[f] = frames[f])
        /\ pc # "vad_write" => frames' = frames
        /\ TracesSoFar'
      ]_vars

\* the trace file of one identity holds the samples of two windows, and
\* another identity has a trace file too
C19_Witness ==
    /\ pc = "vad_next"
    /\ i = 2
    /\ At(data, 0) = At(data, 1)
    /\ At(data, 2) # At(data, 0)
    /\ Len(frames[TracePath(At(data, 0))]) > Len(Kept(0))
    /\ Len(Kept(0)) > 0
    /\ Len(frames[TracePath(At(data, 2))]) > 0

=============================================================================
